---- MODULE Spec2Model ----
(***************************************************************************)
(* Order execution engine: submission (POST /api/orders/execute), the      *)
(* BullMQ worker that drives an order through its lifecycle, the Redis     *)
(* status store (snapshot key + history list per order id), the DEX router, *)
(* the WebSocket status stream and the status query GET                    *)
(* /api/orders/:orderId (single fetch and continuous poll).                *)
(*                                                                         *)
(* A JSON object is a function from its defined property names to values;  *)
(* a property that is undefined is absent from the DOMAIN, which is what   *)
(* JSON.stringify / JSON.parse leave of it.  Timestamps are not modelled.  *)
(* Prices and fees are integers in units of 1e-3, so effective prices and   *)
(* outputs are exact integers in units of 1e-6.                            *)
(***************************************************************************)
EXTENDS Integers, Sequences, FiniteSets, TLC

\* ---------------------------------------------------------------- bounds
MaxOrders == 2
MaxPosts == 1
MaxFaults == 2
MaxOverlap == 1
MaxPolls == 2
MaxFetches == 2

\* ------------------------------------------------------ program constants
Attempts == 3
Concurrency == 10
RaydiumFee == 3
MeteoraFee == 2

OrderIds == 1..MaxOrders
TickSlots == 1..MaxOverlap

\* Request bodies: a missing or empty token is "", amounts of every sign.
TokensIn == {"", "SOL"}
TokensOut == {"", "USDC"}
Amounts == {-1, 0, 2}

\* Quoted prices inside the venues' bands (raydium 0.98..1.02, meteora
\* 0.97..1.02).
RaydiumPrices == {998, 1000}
MeteoraPrices == {997}
RaydiumLiquidity == 500000
MeteoraLiquidity == 300000

QuoteErrors == {"", "Quote failed"}
SwapErrors == {"", "Execution failed"}
TxHashes == {"mock-tx-a", "mock-tx-b"}
SlippagesPpm == {0}

Terminal == {"confirmed", "failed"}

VARIABLES
    snapshot,    \* Redis string keys: order id -> stored order JSON
    history,     \* Redis lists history:<id>: order id -> sequence of entries
    nextId,      \* the next order id uuidv4() hands out
    jobs,        \* BullMQ jobs: order id -> [state, attemptsMade, data]
    worker,      \* active worker invocations: order id -> [pc, order, dex]
    calls,       \* what the router was asked and answered, per order id
    replies,     \* the HTTP replies POST /api/orders/execute has sent
    ws,          \* the WebSocket status handler's closure variables (and, in
                 \* left, the order ids loop mode has moved away from)
    ticks,       \* the running invocations of its setInterval callback
    sent,        \* what the WebSocket subscriber has received
    probe,       \* a direct call of the router: its arguments and its result
    req,         \* the GET /api/orders/:orderId handler: its request, its store
                 \* client, its reply and, in poll mode, its event stream
    faults       \* how many store and queue calls have rejected

storeVars == <<snapshot, history>>
wsVars == <<ws, ticks, sent>>
vars == <<snapshot, history, nextId, jobs, worker, calls, replies, ws, ticks, sent, probe,
          req, faults>>

\* ----------------------------------------------------------------- helpers
SetField(obj, k, v) == [x \in DOMAIN obj \cup {k} |-> IF x = k THEN v ELSE obj[x]]

Put(f, k, v) == [x \in DOMAIN f \cup {k} |-> IF x = k THEN v ELSE f[x]]

Remove(f, k) == [x \in DOMAIN f \ {k} |-> f[x]]

Max(a, b) == IF a > b THEN a ELSE b

\* A difference that keeps its sign.
Abs_Signed(a) == a

Abs(a) == IF a < 0 THEN -a ELSE a

Rank(s) ==
    CASE s = "pending" -> 0
      [] s = "routing" -> 1
      [] s = "building" -> 2
      [] s = "submitted" -> 3
      [] s = "confirmed" -> 4
      [] s = "failed" -> 4

\* ------------------------------------------------------------- DEX router
getRaydiumQuote(price) ==
    [price |-> price, fee |-> RaydiumFee, liquidity |-> RaydiumLiquidity]

getMeteoraQuote(price) ==
    [price |-> price, fee |-> MeteoraFee, liquidity |-> MeteoraLiquidity]

\* A comparison that lets the first-listed venue win a tie.
isRaydiumBetter_OrEqual(raydiumOutput, meteoraOutput) == raydiumOutput >= meteoraOutput

isRaydiumBetter(raydiumOutput, meteoraOutput) == raydiumOutput > meteoraOutput

\* A router that always hands back the first venue's quote.
selectedQuote_FirstListed(better, raydiumQuote, meteoraQuote) == raydiumQuote

selectedQuote(better, raydiumQuote, meteoraQuote) ==
    IF better THEN raydiumQuote ELSE meteoraQuote

selectBestDex(tokenOut, amount, raydiumQuote, meteoraQuote) ==
    LET raydiumEffective == raydiumQuote.price * (1000 - raydiumQuote.fee)
        meteoraEffective == meteoraQuote.price * (1000 - meteoraQuote.fee)
        raydiumOutput == amount * raydiumEffective
        meteoraOutput == amount * meteoraEffective
        better == isRaydiumBetter(raydiumOutput, meteoraOutput)
        selectedDex == IF better THEN "raydium" ELSE "meteora"
        outputDifference == Abs(raydiumOutput - meteoraOutput)
        percentageDifference ==
            [num |-> outputDifference * 100, den |-> Max(raydiumOutput, meteoraOutput)]
    IN  [dex |-> selectedDex,
         quote |-> selectedQuote(better, raydiumQuote, meteoraQuote),
         decision |->
            [raydium |-> [price |-> raydiumQuote.price, fee |-> raydiumQuote.fee,
                          effectivePrice |-> raydiumEffective, output |-> raydiumOutput,
                          liquidity |-> raydiumQuote.liquidity],
             meteora |-> [price |-> meteoraQuote.price, fee |-> meteoraQuote.fee,
                          effectivePrice |-> meteoraEffective, output |-> meteoraOutput,
                          liquidity |-> meteoraQuote.liquidity],
             selected |-> selectedDex,
             reason |-> [venue |-> selectedDex, more |-> outputDifference,
                         token |-> tokenOut, better |-> percentageDifference],
             priceDifference |-> percentageDifference]]

executeSwap(order, slippagePpm, txHash) ==
    [txHash |-> txHash,
     executedPrice |-> order.amount * (1000000 + slippagePpm)]

\* ----------------------------------------------------------------- queue
addToQueue(order) == [state |-> "waiting", attemptsMade |-> 0, data |-> order]

\* A catch block that re-raises what it has recorded.
processOrderResult_Rethrows(order) ==
    IF order.status = "failed" THEN "threw" ELSE "returned"

\* The outcome of one worker invocation: the catch block logs and returns.
processOrderResult(order) == "returned"

\* BullMQ: a job whose processor returned is completed; one whose processor
\* threw is retried while attemptsMade < attempts, then failed.
JobAfter(job, result) ==
    IF result = "returned" THEN [job EXCEPT !.state = "completed"]
    ELSE IF job.attemptsMade < Attempts THEN [job EXCEPT !.state = "waiting"]
    ELSE [job EXCEPT !.state = "failed"]

\* ------------------------------------------------------------ submission
\* A validation that checks the tokens and forgets the amount.
ValidOrder_TokensOnly(tokenIn, tokenOut, amount) == ~(tokenIn = "" \/ tokenOut = "")

\* The body passes `!body.tokenIn || !body.tokenOut || !body.amount ||
\* body.amount <= 0`; a missing property, like an empty one, is "" or 0.
ValidOrder(tokenIn, tokenOut, amount) ==
    ~(tokenIn = "" \/ tokenOut = "" \/ amount = 0 \/ amount <= 0)

\* An id generator that hands out the previous id again.
uuidv4_Reused == IF nextId > 1 THEN nextId - 1 ELSE nextId

\* uuidv4(): an id no order has had.
uuidv4 == nextId

NewOrder(id, tokenIn, tokenOut, amount) ==
    [orderId |-> id, type |-> "market", tokenIn |-> tokenIn,
     tokenOut |-> tokenOut, amount |-> amount, status |-> "pending"]

IdleTick == [pc |-> "idle"]

\* The invocations of pollStatus: 0 is the one the handler awaits, the others
\* are the interval's.
PollSlots == 0..MaxOverlap

IdlePoll == [pc |-> "idle"]

\* No GET request yet.  seen is what redisClient.get answered (<<>> when the
\* key is absent), prev the single fetch that was answered before this one.
NoRequest ==
    [state |-> "none", orderId |-> 0, shouldPoll |-> FALSE, includeHistory |-> FALSE,
     redisOpen |-> FALSE, seen |-> <<>>, reply |-> [status |-> 0],
     written |-> <<>>, ended |-> FALSE, interval |-> FALSE, onClose |-> FALSE,
     closed |-> FALSE, iter |-> [i \in PollSlots |-> IdlePoll], pending |-> <<>>,
     polls |-> 0, reads |-> 0, lateWrites |-> 0, fetches |-> 0, prev |-> [status |-> 0]]

Init ==
    /\ snapshot = <<>>
    /\ history = [o \in OrderIds |-> <<>>]
    /\ nextId = 1
    /\ jobs = <<>>
    /\ worker = <<>>
    /\ calls = [o \in OrderIds |-> [quote |-> "none", swap |-> "none", execs |-> 0,
                                     dex |-> "", message |-> "", result |-> <<>>,
                                     writeFails |-> 0, selected |-> ""]]
    /\ replies = {}
    /\ ws = [state |-> "none", orderId |-> 0, loopMode |-> FALSE, lastHistoryIndex |-> 0,
             isConnected |-> TRUE, interval |-> FALSE, redisOpen |-> FALSE,
             socketOpen |-> FALSE, closeTimer |-> FALSE,
             templateOrder |-> <<>>, left |-> {}, pending |-> <<>>]
    /\ ticks = [i \in TickSlots |-> IdleTick]
    /\ sent = [history |-> <<>>, last |-> [kind |-> "none"]]
    /\ probe = [state |-> "none"]
    /\ faults = 0
    /\ req = NoRequest

SubmitOrder(tokenIn, tokenOut, amount) ==
    /\ nextId \in DOMAIN history
    /\ IF ~ValidOrder(tokenIn, tokenOut, amount)
       THEN /\ replies' = replies \cup {[status |-> 400, orderId |-> 0]}
            /\ UNCHANGED <<snapshot, history, nextId, jobs, worker, calls, wsVars, probe, req, faults>>
       ELSE LET order == NewOrder(uuidv4, tokenIn, tokenOut, amount)
            IN  /\ snapshot' = Put(snapshot, order.orderId, order)
                /\ jobs' = Put(jobs, order.orderId, addToQueue(order))
                /\ nextId' = nextId + 1
                /\ replies' = replies \cup {[status |-> 200, orderId |-> order.orderId]}
                /\ UNCHANGED <<history, worker, calls, wsVars, probe, req, faults>>

\* ---------------------------------------------------------------- worker
\* An updateStatus that pushes the history entry first.
updateStatusSteps_PushFirst == <<"push", "set">>

\* updateStatus: the snapshot is set, then the history entry is pushed.
updateStatusSteps == <<"set", "push">>

HistoryEntry(order) ==
    [k \in {"orderId", "status"}
            \cup ({"selectedDex", "txHash", "executedPrice"} \cap DOMAIN order)
        |-> order[k]]

\* A catch block without the fallback text.
CatchMessage_NoFallback(message) == message

CatchMessage(message) ==
    IF message = "" THEN "Unknown error occurred during execution" ELSE message

\* A catch block that carries on with a venue of its own choice.
Catch_BestEffort(w, message) ==
    [w EXCEPT !.pc = updateStatusSteps[1],
              !.dex = "meteora",
              !.order = SetField(SetField(w.order, "selectedDex", "meteora"),
                                 "status", IF w.order.status = "routing"
                                           THEN "building" ELSE "failed")]

\* A catch block that logs the error and writes nothing.
Catch_LogsOnly(w, message) == [w EXCEPT !.pc = "logged"]

\* A catch block that records the error and reports the order as confirmed.
Catch_MarksConfirmed(w, message) ==
    [w EXCEPT !.pc = updateStatusSteps[1],
              !.order = SetField(SetField(w.order, "status", "confirmed"),
                                 "error", CatchMessage(message))]

Catch(w, message) ==
    [w EXCEPT !.pc = updateStatusSteps[1],
              !.order = SetField(SetField(w.order, "status", "failed"),
                                 "error", CatchMessage(message))]

\* A queue that hands out a waiting job however many invocations are running.
WorkerStart_NoLimit(o) ==
    /\ o \in DOMAIN jobs
    /\ jobs[o].state = "waiting"
    /\ jobs' = [jobs EXCEPT ![o].state = "active", ![o].attemptsMade = @ + 1]
    /\ worker' = Put(worker, o, [pc |-> updateStatusSteps[1], order |-> jobs[o].data,
                                  dex |-> ""])
    /\ UNCHANGED <<snapshot, history, nextId, calls, replies, wsVars, probe, req, faults>>

WorkerStart(o) ==
    /\ o \in DOMAIN jobs
    /\ jobs[o].state = "waiting"
    /\ Cardinality(DOMAIN worker) < Concurrency
    /\ jobs' = [jobs EXCEPT ![o].state = "active", ![o].attemptsMade = @ + 1]
    /\ worker' = Put(worker, o, [pc |-> updateStatusSteps[1], order |-> jobs[o].data,
                                  dex |-> ""])
    /\ UNCHANGED <<snapshot, history, nextId, calls, replies, wsVars, probe, req, faults>>

\* What the worker does once an updateStatus call has returned.
Continue(o) ==
    LET w == worker[o]
        st == w.order.status
    IN  CASE st = "pending" ->
                /\ worker' = [worker EXCEPT ![o].pc = updateStatusSteps[1],
                                            ![o].order = SetField(w.order, "status", "routing")]
                /\ UNCHANGED jobs
          [] st = "routing" ->
                /\ worker' = [worker EXCEPT ![o].pc = "route"]
                /\ UNCHANGED jobs
          [] st = "building" ->
                /\ worker' = [worker EXCEPT ![o].pc = updateStatusSteps[1],
                                            ![o].order = SetField(w.order, "status", "submitted")]
                /\ UNCHANGED jobs
          [] st = "submitted" ->
                /\ worker' = [worker EXCEPT ![o].pc = "exec"]
                /\ UNCHANGED jobs
          [] st \in Terminal ->
                /\ worker' = Remove(worker, o)
                /\ jobs' = [jobs EXCEPT ![o] = JobAfter(@, processOrderResult(w.order))]

\* One store call of updateStatus has answered: the other one follows, or
\* updateStatus returns.
AfterStep(o, step) ==
    IF step = updateStatusSteps[1]
    THEN /\ worker' = [worker EXCEPT ![o].pc = updateStatusSteps[2]]
         /\ UNCHANGED jobs
    ELSE Continue(o)

UpdateStatusSet(o) ==
    /\ o \in DOMAIN worker
    /\ worker[o].pc = "set"
    /\ snapshot' = Put(snapshot, worker[o].order.orderId, worker[o].order)
    /\ AfterStep(o, "set")
    /\ UNCHANGED <<history, nextId, calls, replies, wsVars, probe, req, faults>>

UpdateStatusPush(o) ==
    /\ o \in DOMAIN worker
    /\ worker[o].pc = "push"
    /\ history' = [history EXCEPT ![worker[o].order.orderId] =
                        Append(@, HistoryEntry(worker[o].order))]
    /\ AfterStep(o, "push")
    /\ UNCHANGED <<snapshot, nextId, calls, replies, wsVars, probe, req, faults>>

\* A routing step that keeps the venue and drops the decision.
WithRouting_NoDecision(order, routingResult) ==
    SetField(order, "selectedDex", routingResult.dex)

\* order.selectedDex = routingResult.dex; order.routingDecision = ...decision
WithRouting(order, routingResult) ==
    SetField(SetField(order, "selectedDex", routingResult.dex),
             "routingDecision", routingResult.decision)

\* An execute step that records the hash and forgets the price.
WithSwap_HashOnly(order, result) == SetField(order, "txHash", result.txHash)

\* order.txHash = result.txHash; order.executedPrice = result.executedPrice
WithSwap(order, result) ==
    SetField(SetField(order, "txHash", result.txHash),
             "executedPrice", result.executedPrice)

\* selectBestDex answers with both quotes.
RouteOk(o, rp, mp) ==
    /\ o \in DOMAIN worker
    /\ worker[o].pc = "route"
    /\ LET w == worker[o]
           routingResult == selectBestDex(w.order.tokenOut, w.order.amount,
                                          getRaydiumQuote(rp), getMeteoraQuote(mp))
       IN  worker' = [worker EXCEPT
                ![o].pc = updateStatusSteps[1],
                ![o].dex = routingResult.dex,
                ![o].order = SetField(WithRouting(w.order, routingResult),
                                      "status", "building")]
    /\ calls' = [calls EXCEPT ![o].quote = "ok",
                              ![o].selected =
                                  selectBestDex(worker[o].order.tokenOut,
                                                worker[o].order.amount,
                                                getRaydiumQuote(rp),
                                                getMeteoraQuote(mp)).decision.selected]
    /\ UNCHANGED <<storeVars, nextId, jobs, replies, wsVars, probe, req, faults>>

\* One of the two quote requests rejects, and Promise.all with it.
RouteFails(o, message) ==
    /\ o \in DOMAIN worker
    /\ worker[o].pc = "route"
    /\ worker' = [worker EXCEPT ![o] = Catch(@, message)]
    /\ calls' = [calls EXCEPT ![o].quote = "failed", ![o].message = message]
    /\ UNCHANGED <<storeVars, nextId, jobs, replies, wsVars, probe, req, faults>>

ExecuteOk(o, slip, tx) ==
    /\ o \in DOMAIN worker
    /\ worker[o].pc = "exec"
    /\ LET w == worker[o]
           result == executeSwap(w.order, slip, tx)
       IN  worker' = [worker EXCEPT
                ![o].pc = updateStatusSteps[1],
                ![o].order = SetField(WithSwap(w.order, result),
                                      "status", "confirmed")]
    /\ calls' = [calls EXCEPT ![o].swap = "ok", ![o].execs = @ + 1,
                              ![o].dex = worker[o].dex,
                              ![o].result = executeSwap(worker[o].order, slip, tx)]
    /\ UNCHANGED <<storeVars, nextId, jobs, replies, wsVars, probe, req, faults>>

ExecuteFails(o, message) ==
    /\ o \in DOMAIN worker
    /\ worker[o].pc = "exec"
    /\ worker' = [worker EXCEPT ![o] = Catch(@, message)]
    /\ calls' = [calls EXCEPT ![o].swap = "failed", ![o].execs = @ + 1,
                              ![o].dex = worker[o].dex, ![o].message = message]
    /\ UNCHANGED <<storeVars, nextId, jobs, replies, wsVars, probe, req, faults>>

\* ------------------------------------------------- store and queue faults
\* An updateStatus whose catch block re-raises the store's error.
updateStatusCatch_Rethrows == "threw"

\* updateStatus's catch block logs the store's error and returns.
updateStatusCatch == "returned"

\* A store call of updateStatus has rejected: what is left of updateStatus is
\* skipped, and the worker goes on as updateStatus returned to it.
WriteFailed(o) ==
    /\ calls' = [calls EXCEPT ![o].writeFails = @ + 1]
    /\ IF updateStatusCatch = "returned"
       THEN Continue(o)
       ELSE /\ worker' = Remove(worker, o)
            /\ jobs' = [jobs EXCEPT ![o] = JobAfter(@, updateStatusCatch)]

\* redisClient.set rejects inside updateStatus: its catch logs, rPush is skipped.
UpdateStatusSetFails(o) ==
    /\ faults < MaxFaults
    /\ faults' = faults + 1
    /\ o \in DOMAIN worker
    /\ worker[o].pc = "set"
    /\ WriteFailed(o)
    /\ UNCHANGED <<storeVars, nextId, replies, wsVars, probe, req>>

\* redisClient.rPush rejects inside updateStatus: its catch logs.
UpdateStatusPushFails(o) ==
    /\ faults < MaxFaults
    /\ faults' = faults + 1
    /\ o \in DOMAIN worker
    /\ worker[o].pc = "push"
    /\ WriteFailed(o)
    /\ UNCHANGED <<storeVars, nextId, replies, wsVars, probe, req>>

\* A submission that enqueues the job before it stores the snapshot.
submitSteps_AddFirst == <<"add", "set">>

\* POST /api/orders/execute: redisClient.set, then addToQueue.
submitSteps == <<"set", "add">>

\* The step comes before the step `at` in the submission.
DoneBefore(step, at) ==
    \E i, j \in 1..Len(submitSteps) :
        i < j /\ submitSteps[i] = step /\ submitSteps[j] = at

\* POST /api/orders/execute with a valid body whose connect or set rejects
\* (at = "set") or whose addToQueue rejects (at = "add"): what was done before
\* stays done, and the reply is 500.
SubmitOrderFails(tokenIn, tokenOut, amount, at) ==
    /\ faults < MaxFaults
    /\ faults' = faults + 1
    /\ nextId \in DOMAIN history
    /\ ValidOrder(tokenIn, tokenOut, amount)
    /\ LET order == NewOrder(uuidv4, tokenIn, tokenOut, amount)
       IN  /\ snapshot' = IF DoneBefore("set", at)
                          THEN Put(snapshot, order.orderId, order) ELSE snapshot
           /\ jobs' = IF DoneBefore("add", at)
                      THEN Put(jobs, order.orderId, addToQueue(order)) ELSE jobs
    /\ nextId' = nextId + 1
    /\ replies' = replies \cup {[status |-> 500, orderId |-> 0]}
    /\ UNCHANGED <<history, worker, calls, wsVars, probe, req>>

\* ------------------------------------------- WebSocket status stream
\* socket.send: the messages reach the subscriber while the socket is open.
\* Of what reached it, the history messages are kept in order, and the last
\* message of any kind.
Delivered(log, msgs) ==
    [history |-> log.history \o SelectSeq(msgs, LAMBDA m : m.kind = "history"),
     last |-> IF msgs = <<>> THEN log.last ELSE msgs[Len(msgs)]]

Send(msgs) == sent' = IF ws.socketOpen THEN Delivered(sent, msgs) ELSE sent

HistoryMessage(entry, loopMode) ==
    [kind |-> "history", loopMode |-> loopMode, entry |-> entry]

SnapshotMessage(latest, loopMode) ==
    [kind |-> "snapshot", loopMode |-> loopMode, order |-> latest]

HistoryMessages(items, loopMode) ==
    [n \in 1..Len(items) |-> HistoryMessage(items[n], loopMode)]

\* A range read that leaves out the element at start.
lRange_AfterStart(list, start) == SubSeq(list, start + 2, Len(list))

\* lRange(key, start, -1)
lRange(list, start) == SubSeq(list, start + 1, Len(list))

\* templateOrder holds the order read at connect; only these three
\* properties of it are ever read again.
Template(order) ==
    [tokenIn |-> order.tokenIn, tokenOut |-> order.tokenOut, amount |-> order.amount]

\* The connection is accepted and the handler awaits redisClient.connect().
Subscribe(id, loopMode) ==
    /\ ws.state = "none"
    /\ ws' = [ws EXCEPT !.state = "get", !.orderId = id, !.loopMode = loopMode,
                        !.redisOpen = TRUE, !.socketOpen = TRUE]
    /\ UNCHANGED <<storeVars, nextId, jobs, worker, calls, replies, ticks, sent, probe, req, faults>>

\* redisClient.get(orderId) of the setup: not found, or the 'connected' message.
WsLookup ==
    /\ ws.state = "get"
    /\ IF ws.orderId \notin DOMAIN snapshot
       THEN /\ Send(<<[kind |-> "error", error |-> "Order not found"]>>)
            /\ ws' = [ws EXCEPT !.state = "ended", !.socketOpen = FALSE,
                                !.redisOpen = FALSE]
       ELSE LET order == snapshot[ws.orderId]
            IN  /\ Send(<<[kind |-> "connected", orderId |-> order.orderId,
                           status |-> order.status, loopMode |-> ws.loopMode]>>)
                /\ ws' = [ws EXCEPT !.state = "replay",
                                    !.templateOrder = Template(order)]
    /\ UNCHANGED <<storeVars, nextId, jobs, worker, calls, replies, ticks, probe, req, faults>>

\* lRange(history:<id>, 0, -1) of the setup, the replay, setInterval and the
\* registration of the close and error handlers.
WsReplay ==
    /\ ws.state = "replay"
    /\ LET historyList == lRange(history[ws.orderId], 0)
       IN  /\ Send(HistoryMessages(historyList, ws.loopMode))
           /\ ws' = [ws EXCEPT !.state = "polling",
                               !.lastHistoryIndex = Len(historyList),
                               !.interval = TRUE]
    /\ UNCHANGED <<storeVars, nextId, jobs, worker, calls, replies, ticks, probe, req, faults>>

\* The stream's store client has one connection: it answers the calls of
\* overlapping ticks in the order they were made.  pending lists the ticks
\* that wait for an answer, oldest call first.
Answered(i) == ws.pending # <<>> /\ Head(ws.pending) = i

\* The oldest call has answered, and the tick makes its next call.
NextCall(pending, i) == Append(Tail(pending), i)

\* The interval fires: the guard, then lLen is requested.
TickStart(i) ==
    /\ ws.interval
    /\ ticks[i].pc = "idle"
    /\ IF ~ws.isConnected \/ ~ws.redisOpen
       THEN /\ ws' = [ws EXCEPT !.interval = FALSE]
            /\ UNCHANGED ticks
       ELSE /\ ticks' = [ticks EXCEPT ![i] = [pc |-> "llen", key |-> ws.orderId]]
            /\ ws' = [ws EXCEPT !.pending = Append(@, i)]
    /\ UNCHANGED <<storeVars, nextId, jobs, worker, calls, replies, sent, probe, req, faults>>

\* lLen answers; lRange(lastHistoryIndex, -1) or get(orderId) is requested.
TickLLen(i) ==
    /\ ticks[i].pc = "llen"
    /\ ws.redisOpen
    /\ Answered(i)
    /\ LET currentLen == Len(history[ticks[i].key])
       IN  ticks' = [ticks EXCEPT ![i] =
                IF currentLen > ws.lastHistoryIndex
                THEN [pc |-> "lrange", key |-> ws.orderId, currentLen |-> currentLen,
                      start |-> ws.lastHistoryIndex]
                ELSE [pc |-> "get", key |-> ws.orderId]]
    /\ ws' = [ws EXCEPT !.pending = NextCall(@, i)]
    /\ UNCHANGED <<storeVars, nextId, jobs, worker, calls, replies, sent, probe, req, faults>>

\* The cursor the tick leaves after sending the new items.
NextHistoryIndex(currentLen, start, newItems) == currentLen

\* lRange answers: the new items are sent and the cursor moves.
TickLRange(i) ==
    /\ ticks[i].pc = "lrange"
    /\ ws.redisOpen
    /\ Answered(i)
    /\ LET newItems == lRange(history[ticks[i].key], ticks[i].start)
       IN  /\ Send(HistoryMessages(newItems, ws.loopMode))
           /\ ws' = [ws EXCEPT !.lastHistoryIndex =
                        NextHistoryIndex(ticks[i].currentLen, ticks[i].start, newItems),
                               !.pending = NextCall(@, i)]
    /\ ticks' = [ticks EXCEPT ![i] = [pc |-> "get", key |-> ws.orderId]]
    /\ UNCHANGED <<storeVars, nextId, jobs, worker, calls, replies, probe, req, faults>>

\* get(orderId) answers: the snapshot message, then the terminal handling.
TickGet(i) ==
    /\ ticks[i].pc = "get"
    /\ ws.redisOpen
    /\ Answered(i)
    /\ IF ticks[i].key \notin DOMAIN snapshot
       THEN /\ Send(<<[kind |-> "error", error |-> "Order not found in database",
                       orderId |-> ws.orderId]>>)
            /\ ws' = [ws EXCEPT !.closeTimer = TRUE, !.pending = Tail(@)]
            /\ ticks' = [ticks EXCEPT ![i] = IdleTick]
            /\ UNCHANGED nextId
       ELSE LET latest == snapshot[ticks[i].key]
            IN  /\ Send(<<SnapshotMessage(latest, ws.loopMode)>>)
                /\ IF latest.status \notin Terminal
                   THEN /\ ticks' = [ticks EXCEPT ![i] = IdleTick]
                        /\ ws' = [ws EXCEPT !.pending = Tail(@)]
                        /\ UNCHANGED nextId
                   ELSE IF ~ws.loopMode
                   THEN /\ ws' = [ws EXCEPT !.closeTimer = TRUE, !.pending = Tail(@)]
                        /\ ticks' = [ticks EXCEPT ![i] = IdleTick]
                        /\ UNCHANGED nextId
                   ELSE /\ nextId \in DOMAIN history
                        /\ LET newOrder == NewOrder(uuidv4, ws.templateOrder.tokenIn,
                                                    ws.templateOrder.tokenOut,
                                                    ws.templateOrder.amount)
                           IN  /\ ticks' = [ticks EXCEPT ![i] =
                                    [pc |-> "loopset", key |-> newOrder.orderId,
                                     newOrder |-> newOrder]]
                               /\ ws' = [ws EXCEPT !.orderId = newOrder.orderId,
                                                   !.lastHistoryIndex = 0,
                                                   !.left = @ \cup {ws.orderId},
                                                   !.pending = NextCall(@, i)]
                        /\ nextId' = nextId + 1
    /\ UNCHANGED <<storeVars, jobs, worker, calls, replies, probe, req, faults>>

\* Loop mode: redisClient.set(orderId, newOrder) answers; del is requested.
TickLoopSet(i) ==
    /\ ticks[i].pc = "loopset"
    /\ ws.redisOpen
    /\ Answered(i)
    /\ snapshot' = Put(snapshot, ticks[i].key, ticks[i].newOrder)
    /\ ticks' = [ticks EXCEPT ![i].pc = "loopdel", ![i].key = ws.orderId]
    /\ ws' = [ws EXCEPT !.pending = NextCall(@, i)]
    /\ UNCHANGED <<history, nextId, jobs, worker, calls, replies, sent, probe, req, faults>>

\* Loop mode: redisClient.del(history:<orderId>) answers.
TickLoopDel(i) ==
    /\ ticks[i].pc = "loopdel"
    /\ ws.redisOpen
    /\ Answered(i)
    /\ history' = [history EXCEPT ![ticks[i].key] = <<>>]
    /\ ticks' = [ticks EXCEPT ![i].pc = "loopadd"]
    /\ ws' = [ws EXCEPT !.pending = Tail(@)]
    /\ UNCHANGED <<snapshot, nextId, jobs, worker, calls, replies, sent, probe, req, faults>>

\* Loop mode: addToQueue(newOrder) answers; the 'cycle' message is sent.
TickLoopAdd(i) ==
    /\ ticks[i].pc = "loopadd"
    /\ jobs' = Put(jobs, ticks[i].newOrder.orderId, addToQueue(ticks[i].newOrder))
    /\ Send(<<[kind |-> "cycle", orderId |-> ws.orderId,
               tokenIn |-> ticks[i].newOrder.tokenIn,
               tokenOut |-> ticks[i].newOrder.tokenOut,
               amount |-> ticks[i].newOrder.amount]>>)
    /\ ticks' = [ticks EXCEPT ![i] = IdleTick]
    /\ UNCHANGED <<storeVars, nextId, worker, calls, replies, ws, probe, req, faults>>

\* The 'close' event handler (the 'error' handler does the same).
OnClose(w) ==
    [w EXCEPT !.isConnected = FALSE, !.interval = FALSE, !.redisOpen = FALSE]

\* A timer callback that closes nothing.
CloseTimer_NoClose ==
    /\ ws.closeTimer
    /\ ws' = [ws EXCEPT !.closeTimer = FALSE]
    /\ UNCHANGED <<storeVars, nextId, jobs, worker, calls, replies, ticks, sent, probe, req, faults>>

\* The setTimeout of the terminal handling fires: socket.close(1000, ...).
\* Of several pending timers only the first finds isConnected true, so one
\* pending flag stands for them all.
CloseTimer ==
    /\ ws.closeTimer
    /\ ws' = IF ws.isConnected /\ ws.socketOpen
             THEN [OnClose(ws) EXCEPT !.closeTimer = FALSE, !.socketOpen = FALSE,
                                      !.state = "completed"]
             ELSE [ws EXCEPT !.closeTimer = FALSE]
    /\ UNCHANGED <<storeVars, nextId, jobs, worker, calls, replies, ticks, sent, probe, req, faults>>

\* The subscriber goes away.  The handlers exist once the setup has finished;
\* a close event before that is heard by nobody and isConnected stays true.
Disconnect ==
    /\ ws.socketOpen
    /\ ws' = IF ws.state = "polling"
             THEN [OnClose(ws) EXCEPT !.socketOpen = FALSE]
             ELSE [ws EXCEPT !.socketOpen = FALSE]
    /\ UNCHANGED <<storeVars, nextId, jobs, worker, calls, replies, ticks, sent, probe, req, faults>>

\* A tick whose store client was disconnected under it: the next store call
\* rejects, the catch block runs and its send reaches nobody.
TickAbort(i) ==
    /\ ticks[i].pc \in {"llen", "lrange", "get", "loopset", "loopdel"}
    /\ ~ws.redisOpen
    /\ ticks' = [ticks EXCEPT ![i] = IdleTick]
    /\ ws' = [ws EXCEPT !.pending = SelectSeq(@, LAMBDA j : j # i)]
    /\ UNCHANGED <<storeVars, nextId, jobs, worker, calls, replies, sent, probe, req, faults>>

\* ------------------------------------------- GET /api/orders/:orderId
NotFoundBody == [error |-> "Order not found"]

FailedBody == [error |-> "Failed to get order status"]

\* A body that numbers the requests it answers.
StatusBody_Numbered(order, includeHistory, historyList) ==
    SetField(order, "request", req.fetches)

\* What is sent for an order that was found: the order, or { order, history }.
StatusBody(order, includeHistory, historyList) ==
    IF includeHistory THEN [order |-> order, history |-> historyList] ELSE order

getVars == <<storeVars, nextId, jobs, worker, calls, replies, wsVars, probe, faults>>

\* The request arrives and the handler awaits redisClient.connect(); in poll
\* mode it then writes the head and calls pollStatus, which requests the get.
Fetch(id, shouldPoll, includeHistory) ==
    /\ req.state \in {"none", "done"}
    /\ req.fetches < MaxFetches
    /\ req' = [NoRequest EXCEPT
                !.state = IF shouldPoll THEN "poll" ELSE "get",
                !.orderId = id,
                !.shouldPoll = shouldPoll,
                !.includeHistory = includeHistory,
                !.redisOpen = TRUE,
                !.iter = IF shouldPoll THEN [@ EXCEPT ![0] = [pc |-> "get"]] ELSE @,
                !.pending = IF shouldPoll THEN <<0>> ELSE <<>>,
                !.fetches = req.fetches + 1,
                !.prev = IF req.state = "done"
                         THEN [status |-> req.reply.status, orderId |-> req.orderId,
                               includeHistory |-> req.includeHistory,
                               seen |-> req.seen, reply |-> req.reply]
                         ELSE req.prev]
    /\ UNCHANGED getVars

\* Single status check: the get answers.  404, or the order, or the request
\* of the history; the finally block disconnects the client.
FetchGet ==
    /\ req.state = "get"
    /\ req' = IF req.orderId \notin DOMAIN snapshot
              THEN [req EXCEPT !.state = "done", !.redisOpen = FALSE,
                               !.reads = @ + 1, !.seen = <<>>,
                               !.reply = [status |-> 404, body |-> NotFoundBody]]
              ELSE IF req.includeHistory
              THEN [req EXCEPT !.state = "lrange", !.reads = @ + 1,
                               !.seen = snapshot[req.orderId]]
              ELSE [req EXCEPT !.state = "done", !.redisOpen = FALSE,
                               !.reads = @ + 1, !.seen = snapshot[req.orderId],
                               !.reply = [status |-> 200,
                                          body |-> StatusBody(snapshot[req.orderId],
                                                              FALSE, <<>>)]]
    /\ UNCHANGED getVars

\* Single status check with history: lRange(history:<id>, 0, -1) answers.
FetchLRange ==
    /\ req.state = "lrange"
    /\ req' = [req EXCEPT !.state = "done", !.redisOpen = FALSE, !.reads = @ + 1,
                          !.reply = [status |-> 200,
                                     body |-> StatusBody(req.seen, TRUE,
                                                         lRange(history[req.orderId], 0))]]
    /\ UNCHANGED getVars

\* reply.raw.write: an event of the stream, or a write after end().
Written(r, body) ==
    IF r.ended THEN [r EXCEPT !.lateWrites = @ + 1]
    ELSE [r EXCEPT !.written = Append(@, body)]

\* pollStatus returns.  When the awaited invocation has returned the handler
\* sets the interval and registers the 'close' handler of the response.
Returned(r, i) ==
    IF i = 0
    THEN [r EXCEPT !.iter[i] = IdlePoll, !.interval = TRUE, !.onClose = TRUE]
    ELSE [r EXCEPT !.iter[i] = IdlePoll]

\* After the write: on a terminal status the response is ended and the
\* disconnect of the store client is awaited.
AfterWrite(r, i, order) ==
    IF order.status \in Terminal
    THEN [r EXCEPT !.ended = TRUE, !.redisOpen = FALSE, !.iter[i] = [pc |-> "disc"]]
    ELSE Returned(r, i)

\* The request's store client has one connection and answers in call order.
PollAnswered(i) == req.pending # <<>> /\ Head(req.pending) = i

\* pollStatus: the get answers.
PollGet(i) ==
    /\ req.state = "poll"
    /\ req.iter[i].pc = "get"
    /\ req.redisOpen
    /\ PollAnswered(i)
    /\ LET r == [req EXCEPT !.reads = @ + 1, !.pending = Tail(@)]
       IN  req' = IF req.orderId \notin DOMAIN snapshot
                  THEN Returned(Written(r, NotFoundBody), i)
                  ELSE IF req.includeHistory
                  THEN [r EXCEPT !.iter[i] = [pc |-> "lrange",
                                              order |-> snapshot[req.orderId]],
                                 !.pending = Append(@, i)]
                  ELSE AfterWrite(Written(r, StatusBody(snapshot[req.orderId],
                                                        FALSE, <<>>)),
                                  i, snapshot[req.orderId])
    /\ UNCHANGED getVars

\* pollStatus with history: the lRange answers.
PollLRange(i) ==
    /\ req.state = "poll"
    /\ req.iter[i].pc = "lrange"
    /\ req.redisOpen
    /\ PollAnswered(i)
    /\ LET r == [req EXCEPT !.reads = @ + 1, !.pending = Tail(@)]
           order == req.iter[i].order
       IN  req' = AfterWrite(Written(r, StatusBody(order, TRUE,
                                                   lRange(history[req.orderId], 0))),
                             i, order)
    /\ UNCHANGED getVars

\* The disconnect that the terminal handling awaits has resolved.
PollDisconnected(i) ==
    /\ req.state = "poll"
    /\ req.iter[i].pc = "disc"
    /\ req' = Returned(req, i)
    /\ UNCHANGED getVars

\* The interval fires and pollStatus requests the get; on a client that is
\* closed the get rejects at once and the catch block writes the error.
PollTick(i) ==
    /\ req.state = "poll"
    /\ i # 0
    /\ req.interval
    /\ req.iter[i].pc = "idle"
    /\ req.polls < MaxPolls
    /\ req' = IF req.redisOpen
              THEN [req EXCEPT !.polls = @ + 1, !.iter[i] = [pc |-> "get"],
                               !.pending = Append(@, i)]
              ELSE Written([req EXCEPT !.polls = @ + 1], FailedBody)
    /\ UNCHANGED getVars

\* A call in flight when the client is disconnected rejects: the catch block.
PollAbort(i) ==
    /\ req.state = "poll"
    /\ req.iter[i].pc \in {"get", "lrange"}
    /\ ~req.redisOpen
    /\ req' = Returned(Written([req EXCEPT !.pending = SelectSeq(@, LAMBDA j : j # i)],
                               FailedBody), i)
    /\ UNCHANGED getVars

\* The response emits 'close': it was ended, or the caller went away.  Only
\* a handler that is registered by then hears it.
ResponseClose ==
    /\ req.state = "poll"
    /\ ~req.closed
    /\ req' = IF req.onClose
              THEN [req EXCEPT !.closed = TRUE, !.interval = FALSE, !.redisOpen = FALSE]
              ELSE [req EXCEPT !.closed = TRUE]
    /\ UNCHANGED getVars

\* --------------------------------------------- a direct call of the router
ProbeAmounts == {1, 2, 10}
ProbeRaydiumPrices == {980, 997, 998, 999, 1000, 1019}
ProbeMeteoraPrices == {970, 996, 997, 998, 999, 1019}

InitRouter ==
    /\ Init!1 /\ Init!2 /\ Init!3 /\ Init!4 /\ Init!5 /\ Init!6 /\ Init!7
    /\ Init!8 /\ Init!9 /\ Init!10 /\ Init!12 /\ Init!13
    /\ probe \in [state : {"asked"}, tokenOut : {"USDC"}, amount : ProbeAmounts,
                  raydium : {getRaydiumQuote(p) : p \in ProbeRaydiumPrices},
                  meteora : {getMeteoraQuote(p) : p \in ProbeMeteoraPrices}]

RouterAnswers ==
    /\ probe.state = "asked"
    /\ probe' = [state |-> "answered", tokenOut |-> probe.tokenOut,
                 amount |-> probe.amount,
                 raydium |-> probe.raydium, meteora |-> probe.meteora,
                 result |-> selectBestDex(probe.tokenOut, probe.amount,
                                          probe.raydium, probe.meteora)]
    /\ UNCHANGED <<storeVars, nextId, jobs, worker, calls, replies, wsVars, req, faults>>

\* ------------------------------------------------------- specifications
\* The worker, the queue and the store, with every kind of request body,
\* quote and execution outcome.
NextWorker ==
    \/ \E ti \in TokensIn, to \in TokensOut, a \in Amounts : SubmitOrder(ti, to, a)
    \/ \E o \in OrderIds : WorkerStart(o)
    \/ \E o \in OrderIds : UpdateStatusSet(o)
    \/ \E o \in OrderIds : UpdateStatusPush(o)
    \/ \E o \in OrderIds, rp \in RaydiumPrices, mp \in MeteoraPrices : RouteOk(o, rp, mp)
    \/ \E o \in OrderIds, m \in QuoteErrors : RouteFails(o, m)
    \/ \E o \in OrderIds, slip \in SlippagesPpm, tx \in TxHashes : ExecuteOk(o, slip, tx)
    \/ \E o \in OrderIds, m \in SwapErrors : ExecuteFails(o, m)

\* Store and queue calls that reject.
NextFault ==
    \/ \E o \in OrderIds : UpdateStatusSetFails(o)
    \/ \E o \in OrderIds : UpdateStatusPushFails(o)
    \/ \E at \in {"set", "add"} : SubmitOrderFails("SOL", "USDC", 2, at)

\* The worker as the stream's tracked orders need it: one request body, one
\* outcome of each kind, MaxPosts submissions (the other ids are loop mode's).
NextTracked ==
    \/ /\ Cardinality({r \in replies : r.status = 200}) < MaxPosts
       /\ SubmitOrder("SOL", "USDC", 2)
    \/ \E o \in OrderIds : WorkerStart(o)
    \/ \E o \in OrderIds : UpdateStatusSet(o)
    \/ \E o \in OrderIds : UpdateStatusPush(o)
    \/ \E o \in OrderIds : RouteOk(o, 1000, 997)
    \/ \E o \in OrderIds : RouteFails(o, "Quote failed")
    \/ \E o \in OrderIds : ExecuteOk(o, 0, "mock-tx-a")
    \/ \E o \in OrderIds : ExecuteFails(o, "Execution failed")

NextStream ==
    \/ \E id \in OrderIds, loopMode \in BOOLEAN : Subscribe(id, loopMode)
    \/ WsLookup
    \/ WsReplay
    \/ \E i \in TickSlots : TickStart(i)
    \/ \E i \in TickSlots : TickLLen(i)
    \/ \E i \in TickSlots : TickLRange(i)
    \/ \E i \in TickSlots : TickGet(i)
    \/ \E i \in TickSlots : TickLoopSet(i)
    \/ \E i \in TickSlots : TickLoopDel(i)
    \/ \E i \in TickSlots : TickLoopAdd(i)
    \/ CloseTimer
    \/ Disconnect
    \/ \E i \in TickSlots : TickAbort(i)

Next == NextWorker \/ NextFault

\* Worker, queue and store; store and queue calls may reject.
Spec == Init /\ [][Next]_vars

\* The same with a store and a queue that answer every call.
SpecReliable == Init /\ [][NextWorker]_vars

\* The status stream over the orders it tracks.
SpecStream == Init /\ [][NextTracked \/ NextStream]_vars

\* The router called directly on bounded quotes.
SpecRouter == InitRouter /\ [][RouterAnswers]_vars

\* Orders submitted side by side, each with the worker steps of NextTracked.
NextConcurrent ==
    \/ SubmitOrder("SOL", "USDC", 2)
    \/ \E o \in OrderIds : WorkerStart(o)
    \/ \E o \in OrderIds : UpdateStatusSet(o)
    \/ \E o \in OrderIds : UpdateStatusPush(o)
    \/ \E o \in OrderIds : RouteOk(o, 1000, 997)
    \/ \E o \in OrderIds : RouteFails(o, "Quote failed")
    \/ \E o \in OrderIds : ExecuteOk(o, 0, "mock-tx-a")
    \/ \E o \in OrderIds : ExecuteFails(o, "Execution failed")

\* A subscriber during the first second of its stream, before the interval
\* fires: it connects, is sent the acknowledgement and the replay, and may
\* leave at any of these points.
NextWatch ==
    \/ \E id \in OrderIds : Subscribe(id, FALSE)
    \/ WsLookup
    \/ WsReplay
    \/ Disconnect

\* The queue hands every waiting job to the worker (concurrency 10), and every
\* call the worker awaits (store write, quotes, swap) is answered in the end.
WorkerFairness ==
    \A o \in OrderIds :
        /\ WF_vars(WorkerStart(o))
        /\ WF_vars(UpdateStatusSet(o))
        /\ WF_vars(UpdateStatusPush(o))
        /\ WF_vars(RouteOk(o, 1000, 997) \/ RouteFails(o, "Quote failed"))
        /\ WF_vars(ExecuteOk(o, 0, "mock-tx-a") \/ ExecuteFails(o, "Execution failed"))

\* Concurrent orders under a fair worker, with a store that answers every call.
SpecLive == Init /\ [][NextConcurrent \/ NextWatch]_vars /\ WorkerFairness

\* A stream without loop mode, from connect to close.
NextObserve ==
    \/ \E id \in OrderIds : Subscribe(id, FALSE)
    \/ WsLookup
    \/ WsReplay
    \/ \E i \in TickSlots : TickStart(i)
    \/ \E i \in TickSlots : TickLLen(i)
    \/ \E i \in TickSlots : TickLRange(i)
    \/ \E i \in TickSlots : TickGet(i)
    \/ CloseTimer
    \/ Disconnect
    \/ \E i \in TickSlots : TickAbort(i)

\* The interval fires every second while it is set, the store answers every
\* call of a tick, and a timer that was set fires.
StreamFairness ==
    /\ \A i \in TickSlots :
            /\ WF_vars(TickStart(i))
            /\ WF_vars(TickLLen(i))
            /\ WF_vars(TickLRange(i))
            /\ WF_vars(TickGet(i))
    /\ WF_vars(CloseTimer)

\* A stream without loop mode over the orders of NextTracked, with a fair
\* worker, a fair interval and a store that answers every call.
SpecObserve ==
    Init /\ [][NextTracked \/ NextObserve]_vars /\ WorkerFairness /\ StreamFairness

\* Loop mode with ticks that overlap: one tick slot and one order id more
\* than the other specifications have, so that two ticks can each find the
\* tracked order terminal.  The tracked orders are those whose quotes fail;
\* the order generated last is still waiting in the queue.
OverlapSlots == 1..(MaxOverlap + 1)

OverlapIds == 1..(MaxOrders + 1)

InitOverlap ==
    /\ Init!1 /\ Init!3 /\ Init!4 /\ Init!5 /\ Init!7
    /\ Init!8 /\ Init!10 /\ Init!11 /\ Init!12 /\ Init!13
    /\ history = [o \in OverlapIds |-> <<>>]
    /\ calls = [o \in OverlapIds |-> [quote |-> "none", swap |-> "none", execs |-> 0,
                                       dex |-> "", message |-> "", result |-> <<>>,
                                       writeFails |-> 0, selected |-> ""]]
    /\ ticks = [i \in OverlapSlots |-> IdleTick]

NextOverlap ==
    \/ /\ Cardinality({r \in replies : r.status = 200}) < MaxPosts
       /\ SubmitOrder("SOL", "USDC", 2)
    \/ \E o \in OrderIds : WorkerStart(o)
    \/ \E o \in OrderIds : UpdateStatusSet(o)
    \/ \E o \in OrderIds : UpdateStatusPush(o)
    \/ \E o \in OrderIds : RouteFails(o, "Quote failed")
    \/ Subscribe(1, TRUE)
    \/ WsLookup
    \/ WsReplay
    \/ \E i \in OverlapSlots : TickStart(i)
    \/ \E i \in OverlapSlots : TickLLen(i)
    \/ \E i \in OverlapSlots : TickLRange(i)
    \/ \E i \in OverlapSlots : TickGet(i)
    \/ \E i \in OverlapSlots : TickLoopSet(i)
    \/ \E i \in OverlapSlots : TickLoopDel(i)
    \/ \E i \in OverlapSlots : TickLoopAdd(i)

SpecOverlap == InitOverlap /\ [][NextOverlap]_vars

NextFetch ==
    \/ \E id \in OrderIds, shouldPoll \in BOOLEAN, includeHistory \in BOOLEAN :
            Fetch(id, shouldPoll, includeHistory)
    \/ FetchGet
    \/ FetchLRange
    \/ \E i \in PollSlots : PollGet(i)
    \/ \E i \in PollSlots : PollLRange(i)
    \/ \E i \in PollSlots : PollDisconnected(i)
    \/ \E i \in PollSlots : PollTick(i)
    \/ \E i \in PollSlots : PollAbort(i)
    \/ ResponseClose

\* Status queries over the orders of NextTracked.
SpecFetch == Init /\ [][NextTracked \/ NextFetch]_vars


\* The worker on orders whose quotes fail.
NextLean ==
    \/ /\ Cardinality({r \in replies : r.status = 200}) < MaxPosts
       /\ SubmitOrder("SOL", "USDC", 2)
    \/ \E o \in OrderIds : WorkerStart(o)
    \/ \E o \in OrderIds : UpdateStatusSet(o)
    \/ \E o \in OrderIds : UpdateStatusPush(o)
    \/ \E o \in OrderIds : RouteFails(o, "Quote failed")

\* The three query channels side by side: single fetch, continuous poll and
\* the first second of a push stream.
SpecQuery == Init /\ [][NextLean \/ NextFetch \/ NextWatch]_vars

\* One order more than the worker runs at a time.  The orders beyond MaxOrders
\* are started and stay in their first store call.
PoolIds == 1..(Concurrency + 1)

InitPool ==
    /\ Init!1 /\ Init!3 /\ Init!4 /\ Init!5 /\ Init!7
    /\ Init!8 /\ Init!9 /\ Init!10 /\ Init!11 /\ Init!12 /\ Init!13
    /\ history = [o \in PoolIds |-> <<>>]
    /\ calls = [o \in PoolIds |-> [quote |-> "none", swap |-> "none", execs |-> 0,
                                    dex |-> "", message |-> "", result |-> <<>>,
                                    writeFails |-> 0, selected |-> ""]]

NextPool ==
    \/ SubmitOrder("SOL", "USDC", 2)
    \/ \E o \in PoolIds : WorkerStart(o)
    \/ \E o \in OrderIds : UpdateStatusSet(o)
    \/ \E o \in OrderIds : UpdateStatusPush(o)
    \/ \E o \in OrderIds : RouteFails(o, "Quote failed")

\* The queue with more waiting jobs than the worker's concurrency.
SpecPool == InitPool /\ [][NextPool]_vars

\* One observer at a time, a push stream or a GET request: observers have
\* each their own store client and closure and share no state.
NextObserver ==
    \/ /\ req.state = "none"
       /\ \E id \in OrderIds, loopMode \in BOOLEAN : Subscribe(id, loopMode)
    \/ WsLookup
    \/ WsReplay
    \/ \E i \in TickSlots : TickStart(i)
    \/ \E i \in TickSlots : TickLLen(i)
    \/ \E i \in TickSlots : TickLRange(i)
    \/ \E i \in TickSlots : TickGet(i)
    \/ \E i \in TickSlots : TickLoopSet(i)
    \/ \E i \in TickSlots : TickLoopDel(i)
    \/ \E i \in TickSlots : TickLoopAdd(i)
    \/ CloseTimer
    \/ Disconnect
    \/ \E i \in TickSlots : TickAbort(i)
    \/ /\ ws.state = "none"
       /\ \E id \in OrderIds, shouldPoll \in BOOLEAN, includeHistory \in BOOLEAN :
                Fetch(id, shouldPoll, includeHistory)
    \/ FetchGet
    \/ FetchLRange
    \/ \E i \in PollSlots : PollGet(i)
    \/ \E i \in PollSlots : PollLRange(i)
    \/ \E i \in PollSlots : PollDisconnected(i)
    \/ \E i \in PollSlots : PollTick(i)
    \/ \E i \in PollSlots : PollAbort(i)
    \/ ResponseClose

SpecObservers == Init /\ [][NextLean \/ NextObserver]_vars

\* ================================================================ claims
Progression == <<"pending", "routing", "building", "submitted">>

Statuses(o) == [n \in 1..Len(history[o]) |-> history[o][n].status]

\* A prefix of the progression, followed by at most one terminal status.
IsLifecycle(seq) ==
    \E k \in 0..Len(Progression) :
        \/ seq = SubSeq(Progression, 1, k)
        \/ \E t \in Terminal : seq = Append(SubSeq(Progression, 1, k), t)

InOrder(seq) == \A i, j \in 1..Len(seq) : i < j => Rank(seq[i]) < Rank(seq[j])

Stored(o) == o \in DOMAIN snapshot

Finished(o) == o \in DOMAIN jobs /\ jobs[o].state = "completed"

\* C1: whatever the store writes do, every history is a prefix of pending,
\* routing, building, submitted followed by at most one terminal entry.
C1_HistoryIsLifecyclePrefix == \A o \in OrderIds : IsLifecycle(Statuses(o))

\* C2: once a stored snapshot is confirmed or failed, no step changes its status.
C2_TerminalSnapshotIsFinal ==
    [][\A o \in OrderIds :
          (Stored(o) /\ snapshot[o].status \in Terminal)
              => (o \in DOMAIN snapshot' /\ snapshot'[o].status = snapshot[o].status)]_vars

C2_Witness ==
    /\ Stored(1) /\ snapshot[1].status \in Terminal /\ Finished(1)
    /\ ws.loopMode /\ 1 \in ws.left
    /\ Stored(2) /\ snapshot[2].status \in Terminal
    /\ sent.last.kind = "snapshot" /\ sent.last.order.orderId = 2

C4_QuoteFailureFailsRouting ==
    \A o \in DOMAIN jobs :
        calls[o].quote = "failed" =>
            /\ calls[o].execs = 0
            /\ snapshot[o].status \in {"pending", "routing", "failed"}
            /\ DOMAIN snapshot[o] \cap {"selectedDex", "routingDecision"} = {}
            /\ \A n \in 1..Len(history[o]) :
                    /\ history[o][n].status \in {"pending", "routing", "failed"}
                    /\ "selectedDex" \notin DOMAIN history[o][n]
            /\ o \in DOMAIN worker =>
                    /\ worker[o].order.status = "failed"
                    /\ worker[o].pc \in {"set", "push"}
            /\ snapshot[o].status = "failed" =>
                    snapshot[o].error =
                        IF calls[o].message = ""
                        THEN "Unknown error occurred during execution"
                        ELSE calls[o].message
            /\ (Finished(o) /\ faults = 0) =>
                    Statuses(o) = <<"pending", "routing", "failed">>

C4_Witness ==
    \E o \in DOMAIN jobs :
        /\ calls[o].quote = "failed"
        /\ Finished(o)
        /\ snapshot[o].status = "failed"
        /\ snapshot[o].error = "Quote failed"

\* The history entries the subscriber has been sent.
SentEntries == {sent.history[n].entry : n \in 1..Len(sent.history)}

AllSent(o) == \A n \in 1..Len(history[o]) : history[o][n] \in SentEntries

\* C5: of the history entries sent for one order, each is sent once and they
\* are sent in append order (an order's entries differ in status, and are
\* appended in lifecycle order).
C5_HistorySentOnceInOrder ==
    \A i, j \in 1..Len(sent.history) :
        (i < j /\ sent.history[i].entry.orderId = sent.history[j].entry.orderId)
            => Rank(sent.history[i].entry.status) < Rank(sent.history[j].entry.status)

\* C6: with the subscriber still connected, once the stream has closed the
\* socket, or has left an order for a new one, every history entry of that
\* order, the terminal one included, has been sent.
C6_AllHistorySentBeforeLeaving ==
    /\ ws.state = "completed" => AllSent(ws.orderId)
    /\ ws.socketOpen => \A o \in ws.left : AllSent(o)

\* C7: the stored snapshot is at least as advanced as every entry of the
\* order's history.
C7_SnapshotNotBehindHistory ==
    \A o \in OrderIds : \A n \in 1..Len(history[o]) :
        /\ Stored(o)
        /\ Rank(snapshot[o].status) >= Rank(history[o][n].status)

C7_Witness ==
    \E o \in OrderIds :
        /\ Stored(o)
        /\ Len(history[o]) >= 2
        /\ Rank(snapshot[o].status) > Rank(history[o][Len(history[o])].status)

\* amount x price x (1 - fee) of a probed quote, in units of 1e-6.
Projected(quote) == probe.amount * quote.price * (1000 - quote.fee)

Routed(rec) == rec.status \in {"routing", "building", "submitted", "confirmed"}

\* C10: every stored snapshot, and every snapshot reported on the stream, whose
\* status is routing, building, submitted or confirmed has a routingDecision.
C10_RoutingDecisionOnceRouting ==
    /\ \A o \in DOMAIN snapshot :
            Routed(snapshot[o]) => "routingDecision" \in DOMAIN snapshot[o]
    /\ sent.last.kind = "snapshot" =>
            (Routed(sent.last.order) => "routingDecision" \in DOMAIN sent.last.order)

\* What executeSwap returned for the order is what the record carries.
CarriesSwap(o, rec) ==
    /\ {"txHash", "executedPrice"} \subseteq DOMAIN rec
    /\ calls[o].swap = "ok"
    /\ rec.txHash = calls[o].result.txHash
    /\ rec.executedPrice = calls[o].result.executedPrice

\* C11: every stored snapshot and every history entry with status confirmed
\* carries the txHash and the executedPrice that executeSwap returned for it.
C11_ConfirmedCarriesSettlement ==
    \A o \in OrderIds :
        /\ (Stored(o) /\ snapshot[o].status = "confirmed") => CarriesSwap(o, snapshot[o])
        /\ \A n \in 1..Len(history[o]) :
                history[o][n].status = "confirmed" => CarriesSwap(o, history[o][n])

C11_Witness ==
    \E o \in OrderIds :
        /\ Finished(o)
        /\ snapshot[o].status = "confirmed"
        /\ snapshot[o].txHash = "mock-tx-b"
        /\ snapshot[o].executedPrice = 2000000
        /\ history[o][Len(history[o])] =
                [orderId |-> o, status |-> "confirmed",
                 selectedDex |-> snapshot[o].selectedDex,
                 txHash |-> "mock-tx-b", executedPrice |-> 2000000]

\* C12: a store write that fails in a worker step ends the invocation with
\* that failure, and the queue has the job waiting for a retry, or failed.
C12_StoreFailureReachesQueue ==
    \A o \in DOMAIN jobs :
        (calls[o].writeFails > 0 /\ jobs[o].attemptsMade = 1) =>
            /\ o \notin DOMAIN worker
            /\ jobs[o].state \in {"waiting", "failed"}

\* C13: a store write that fails in a worker step does not end the invocation:
\* the job stays with its first invocation, which runs on to the routing call
\* and, after a successful routing, to the one executeSwap call, and returns.
C13_StoreFailureDoesNotAbort ==
    \A o \in DOMAIN jobs :
        calls[o].writeFails > 0 =>
            /\ jobs[o].attemptsMade = 1
            /\ jobs[o].state \in {"active", "completed"}
            /\ o \in DOMAIN worker <=> jobs[o].state = "active"
            /\ Finished(o) =>
                    /\ calls[o].quote # "none"
                    /\ calls[o].quote = "ok" => calls[o].execs = 1
                    /\ calls[o].quote = "failed" => calls[o].execs = 0

\* The first write of the order failed, and the later ones went through.
C13_Witness ==
    \E o \in DOMAIN jobs :
        /\ calls[o].writeFails = 1
        /\ Finished(o)
        /\ calls[o].swap = "ok"
        /\ Statuses(o) = <<"routing", "building", "submitted", "confirmed">>
        /\ snapshot[o].status = "confirmed"

\* A request body with a token missing or empty, or an amount that is missing,
\* zero or negative.
Malformed(tokenIn, tokenOut, amount) == tokenIn = "" \/ tokenOut = "" \/ amount < 1

\* C14: a submission with a malformed body is answered 400 and writes no
\* snapshot, adds no job and uses up no order id.
C14_MalformedSubmissionHasNoEffect ==
    [][\A tokenIn \in TokensIn, tokenOut \in TokensOut, amount \in Amounts :
          (Malformed(tokenIn, tokenOut, amount) /\ SubmitOrder(tokenIn, tokenOut, amount))
              => /\ replies' = replies \cup {[status |-> 400, orderId |-> 0]}
                 /\ UNCHANGED <<snapshot, history, nextId, jobs, worker, calls>>]_vars

C14_Witness ==
    /\ [status |-> 400, orderId |-> 0] \in replies
    /\ snapshot = <<>>
    /\ jobs = <<>>
    /\ nextId = 1

\* The properties of an order that the submission fixes.
Submitted(order) ==
    [k \in {"orderId", "tokenIn", "tokenOut", "amount"} |-> order[k]]

\* C15: a successful submission stores, under the id it returns, a pending
\* snapshot with the submitted tokenIn, tokenOut and amount; a job is never in
\* the queue without its snapshot in the store; and no step changes the
\* orderId, tokenIn, tokenOut or amount of a stored snapshot.
C15_SubmissionIsStoredAndKept ==
    [][/\ \A tokenIn \in TokensIn, tokenOut \in TokensOut, amount \in Amounts :
            (~Malformed(tokenIn, tokenOut, amount) /\ SubmitOrder(tokenIn, tokenOut, amount))
                => \E id \in OrderIds \ DOMAIN snapshot :
                      /\ replies' = replies \cup {[status |-> 200, orderId |-> id]}
                      /\ id \in DOMAIN snapshot'
                      /\ snapshot'[id] =
                            [orderId |-> id, type |-> "market", tokenIn |-> tokenIn,
                             tokenOut |-> tokenOut, amount |-> amount,
                             status |-> "pending"]
                      /\ id \in DOMAIN jobs'
       /\ \A o \in DOMAIN jobs' : o \in DOMAIN snapshot'
       /\ \A o \in DOMAIN snapshot :
            /\ o \in DOMAIN snapshot'
            /\ Submitted(snapshot'[o]) = Submitted(snapshot[o])
            /\ snapshot[o].orderId = o]_vars

\* One order accepted and confirmed with what was submitted, another whose
\* snapshot was stored before addToQueue rejected.
C15_Witness ==
    \E o, p \in DOMAIN snapshot :
        /\ [status |-> 200, orderId |-> o] \in replies
        /\ Finished(o)
        /\ snapshot[o].status = "confirmed"
        /\ Submitted(snapshot[o]) =
                [orderId |-> o, tokenIn |-> "SOL", tokenOut |-> "USDC", amount |-> 2]
        /\ p \notin DOMAIN jobs
        /\ snapshot[p].status = "pending"

Legal(from, to) ==
    \/ <<from, to>> \in {<<"pending", "routing">>, <<"routing", "building">>,
                          <<"building", "submitted">>, <<"submitted", "confirmed">>}
    \/ from \notin Terminal /\ to = "failed"

\* C16: every change of the status of a stored snapshot is a legal transition.
C16_SnapshotStatusChangesLegally ==
    [][\A o \in DOMAIN snapshot :
          /\ o \in DOMAIN snapshot'
          /\ snapshot'[o].status # snapshot[o].status
                => Legal(snapshot[o].status, snapshot'[o].status)]_vars

\* C17: no step shortens a history list or changes or removes an entry of it.
C17_HistoryIsAppendOnly ==
    [][\A o \in OrderIds :
          /\ Len(history'[o]) >= Len(history[o])
          /\ SubSeq(history'[o], 1, Len(history[o])) = history[o]]_vars

\* Loop mode has deleted the history key of its new order, and the order it
\* left has its whole history.
C17_Witness ==
    \E i \in TickSlots, o \in ws.left :
        /\ ticks[i].pc = "loopadd"
        /\ ticks[i].key # o
        /\ Len(history[o]) >= 3
        /\ history[o][Len(history[o])].status \in Terminal

\* C18: with the subscriber connected, the acknowledgement (kind connected,
\* with the order's id and status) is the first message; the replay follows it
\* with nothing in between and sends every entry of the order's history, in
\* append order; and no snapshot is sent until the replay is over.
C18_AcknowledgedThenReplayed ==
    [][/\ (ws.state = "get" /\ ws'.state = "replay" /\ ws.socketOpen) =>
            /\ sent.last.kind = "none" /\ sent.history = <<>>
            /\ sent'.last.kind = "connected"
            /\ sent'.last.orderId = ws.orderId
            /\ sent'.last.status = snapshot[ws.orderId].status
            /\ sent'.history = <<>>
       /\ (ws.state = "replay" /\ ws'.state = "polling" /\ ws.socketOpen) =>
            /\ sent.last.kind = "connected" /\ sent.history = <<>>
            /\ Len(sent'.history) = Len(history[ws.orderId])
            /\ \A n \in 1..Len(history[ws.orderId]) :
                    /\ sent'.history[n].kind = "history"
                    /\ sent'.history[n].entry = history[ws.orderId][n]
       /\ ws'.state \in {"get", "replay"} => sent'.last.kind # "snapshot"]_vars

\* The replay of a history of three entries or more has just been sent.
C18_Witness ==
    /\ ws.state = "polling" /\ ws.socketOpen /\ ~ws.loopMode
    /\ Len(history[ws.orderId]) >= 3
    /\ ws.lastHistoryIndex = Len(history[ws.orderId])
    /\ Len(sent.history) = Len(history[ws.orderId])
    /\ sent.last.kind = "history"
    /\ \A i \in TickSlots : ticks[i] = IdleTick

\* The subscriber closed the socket itself.
ClientLeft == ws.state = "polling" /\ ~ws.socketOpen

\* The stream polls an order whose stored snapshot is confirmed or failed.
TrackedIsTerminal ==
    /\ ws.state = "polling"
    /\ Stored(ws.orderId)
    /\ snapshot[ws.orderId].status \in {"confirmed", "failed"}

\* C19: a stream without loop mode whose order is terminal sends, unless the
\* subscriber leaves, a snapshot with the terminal status and closes the
\* socket; it arms the close timer only on sending it such a snapshot, closes
\* only by that timer, and is never closed on an order that is stored and
\* not terminal.
C19_TerminalSnapshotThenClose ==
    /\ TrackedIsTerminal ~> (ws.state = "completed" \/ ClientLeft)
    /\ [][(ws'.closeTimer /\ ~ws.closeTimer /\ ws.socketOpen) =>
              /\ sent'.last.kind = "snapshot"
              /\ sent'.last.order = snapshot[ws.orderId]
              /\ sent'.last.order.status \in {"confirmed", "failed"}]_vars
    /\ [][(ws'.state = "completed" /\ ws.state # "completed") => ws.closeTimer]_vars
    /\ [](ws.state = "completed" =>
              snapshot[ws.orderId].status \in {"confirmed", "failed"})

C19_Witness ==
    /\ ws.state = "completed"
    /\ ~ws.loopMode
    /\ sent.last.kind = "snapshot"
    /\ sent.last.order.status = "confirmed"
    /\ AllSent(ws.orderId)

\* A tick is between generating an order and announcing it.
Handover == \E i \in DOMAIN ticks : ticks[i].pc \in {"loopset", "loopdel", "loopadd"}

\* C20: the order a cycle message names is stored and enqueued and has the
\* subscribed order's tokenIn, tokenOut and amount; an order that loop mode
\* stores is new, pending and without history; and once every generated
\* order has been announced, the history and snapshot messages are those of
\* the order the stream tracks.
C20_LoopOrderReadyWhenAnnounced ==
    /\ [](sent.last.kind = "cycle" =>
            /\ sent.last.orderId \in DOMAIN snapshot \cap DOMAIN jobs
            /\ Template(snapshot[sent.last.orderId]) = ws.templateOrder
            /\ Template(sent.last) = ws.templateOrder)
    /\ [][\A o \in DOMAIN history :
            (/\ o \notin DOMAIN snapshot
             /\ o \in DOMAIN snapshot'
             /\ [status |-> 200, orderId |-> o] \notin replies'
             /\ [status |-> 500, orderId |-> 0] \notin replies')
                => /\ snapshot'[o].status = "pending"
                   /\ history'[o] = <<>>
                   /\ o \notin DOMAIN jobs'
                   /\ Template(snapshot'[o]) = ws.templateOrder]_vars
    /\ [][(sent' # sent /\ ws.left # {} /\ ~Handover) =>
            /\ sent'.last.kind = "history" => sent'.last.entry.orderId = ws.orderId
            /\ sent'.last.kind = "snapshot" => sent'.last.order.orderId = ws.orderId]_vars

\* The order a body of the event stream reports (none for an error body).
Reported(body) ==
    IF "order" \in DOMAIN body THEN body.order
    ELSE IF "orderId" \in DOMAIN body THEN body
    ELSE [status |-> "none"]

\* C21: in poll mode, the step that writes a snapshot with status confirmed or
\* failed ends the response, on the first poll as on a later one; and once the
\* response is ended no poll iteration reads the store or writes to the
\* response.
C21_PollStopsAtTerminal ==
    [][/\ (/\ Len(req'.written) > Len(req.written)
           /\ Reported(req'.written[Len(req'.written)]).status \in Terminal)
                => req'.ended
       /\ req.ended =>
            /\ req'.written = req.written
            /\ req'.lateWrites = req.lateWrites
            /\ req'.reads = req.reads
            /\ req'.pending = req.pending]_vars

\* C22: a query for an order id without a snapshot is answered not-found and
\* then stops.  The single fetch replies 404 and disconnects; the push stream
\* sends the one error 'Order not found', closes, and sets no interval; the
\* continuous poll, once it has reported not-found, has no timer and no
\* iteration running.
C22_NotFoundIsReportedThenStops ==
    /\ [][(req.state = "get" /\ req'.state # "get" /\ req.orderId \notin DOMAIN snapshot)
            => /\ req'.reply = [status |-> 404, body |-> [error |-> "Order not found"]]
               /\ req'.state = "done"
               /\ ~req'.redisOpen]_vars
    /\ [][(/\ ws.state = "get" /\ ws'.state # "get"
           /\ ws.socketOpen /\ ws.orderId \notin DOMAIN snapshot)
            => /\ sent'.last = [kind |-> "error", error |-> "Order not found"]
               /\ sent'.history = <<>>
               /\ ws'.state = "ended"
               /\ ~ws'.socketOpen /\ ~ws'.redisOpen /\ ~ws'.interval]_vars
    /\ [](ws.state = "ended" => (~ws.interval /\ \A i \in DOMAIN ticks : ticks[i] = IdleTick))
    /\ []((/\ req.state = "poll"
           /\ \E n \in 1..Len(req.written) : req.written[n] = [error |-> "Order not found"])
            => /\ ~req.interval
               /\ \A i \in DOMAIN req.iter : req.iter[i].pc = "idle")

\* C23: a single-snapshot fetch that finds the store as the single-snapshot
\* fetch of the same order before it found it is answered with the same
\* status and body; and no step of a fetch, with or without history, changes
\* a snapshot or a history list.
C23_FetchIsIdempotentAndReadOnly ==
    [][/\ (/\ req.state = "get" /\ req'.state = "done"
           /\ req.prev.status # 0
           /\ req.prev.orderId = req.orderId
           /\ ~req.prev.includeHistory /\ ~req.includeHistory
           /\ req.prev.seen = req'.seen)
                => req'.reply = req.prev.reply
       /\ (req' # req /\ ~req'.shouldPoll) => UNCHANGED <<snapshot, history>>]_vars

\* Two fetches of an order in the middle of its lifecycle, answered alike.
C23_Witness ==
    /\ req.state = "done" /\ req.fetches = 2
    /\ ~req.includeHistory /\ ~req.prev.includeHistory
    /\ req.prev.orderId = req.orderId
    /\ req.reply.status = 200
    /\ req.reply.body.status = "building"
    /\ req.reply = req.prev.reply
    /\ Len(history[req.orderId]) = 3

\* C24: every successful submission is answered with an id no submission was
\* answered with before and that no snapshot or job has; the snapshot stored
\* under X, the order a worker invocation for X holds and every entry of the
\* history of X carry orderId X; and a worker step for X leaves the snapshot,
\* the history and the job of every other order as they are.
C24_OrdersAreIsolated ==
    /\ [](/\ \A o \in DOMAIN snapshot : snapshot[o].orderId = o
          /\ \A o \in DOMAIN worker : worker[o].order.orderId = o
          /\ \A o \in DOMAIN history : \A n \in 1..Len(history[o]) :
                history[o][n].orderId = o)
    /\ [][\A tokenIn \in TokensIn, tokenOut \in TokensOut, amount \in Amounts :
            (~Malformed(tokenIn, tokenOut, amount) /\ SubmitOrder(tokenIn, tokenOut, amount))
                => \E id \in DOMAIN history :
                      /\ replies' = replies \cup {[status |-> 200, orderId |-> id]}
                      /\ [status |-> 200, orderId |-> id] \notin replies
                      /\ id \notin DOMAIN snapshot \cup DOMAIN jobs]_vars
    /\ [][\A x \in DOMAIN history :
            (\/ x \in DOMAIN worker /\ x \notin DOMAIN worker'
             \/ x \notin DOMAIN worker /\ x \in DOMAIN worker'
             \/ x \in DOMAIN worker /\ x \in DOMAIN worker' /\ worker'[x] # worker[x])
                => \A y \in DOMAIN history \ {x} :
                      /\ history'[y] = history[y]
                      /\ y \in DOMAIN snapshot <=> y \in DOMAIN snapshot'
                      /\ y \in DOMAIN snapshot => snapshot'[y] = snapshot[y]
                      /\ y \in DOMAIN jobs <=> y \in DOMAIN jobs'
                      /\ y \in DOMAIN jobs => jobs'[y] = jobs[y]]_vars

\* Two invocations side by side, each with entries of its own in its history.
C24_Witness ==
    /\ Cardinality(DOMAIN worker) = 2
    /\ \A o \in DOMAIN worker :
            /\ Len(history[o]) >= 2
            /\ snapshot[o].status = "building"
    /\ Cardinality({r \in replies : r.status = 200}) = 2

\* C25: at most Concurrency worker invocations are active; an order has an
\* active invocation exactly while its job is active; and while an order has
\* an active invocation no other invocation is started for it.
C25_OneInvocationPerOrder ==
    /\ [](Cardinality(DOMAIN worker) <= Concurrency)
    /\ [](\A o \in DOMAIN history :
            o \in DOMAIN worker <=> (o \in DOMAIN jobs /\ jobs[o].state = "active"))
    /\ [][\A o \in DOMAIN worker :
            /\ o \in DOMAIN jobs'
            /\ jobs'[o].attemptsMade = jobs[o].attemptsMade
            /\ jobs'[o].data = jobs[o].data]_vars

\* The worker is full and a job waits for a free slot.
C25_Witness ==
    /\ Cardinality(DOMAIN worker) = Concurrency
    /\ \E o \in DOMAIN jobs : jobs[o].state = "waiting" /\ o \notin DOMAIN worker
    /\ \E o \in DOMAIN worker : Len(history[o]) >= 2

\* The subscriber of the stream has disconnected, or the stream has closed.
Gone == ws.state # "none" /\ ~ws.socketOpen

\* C26: once the subscriber has disconnected, during the setup or during a
\* tick, the stream's store connection is released, the setup does not go on,
\* no tick starts or goes on to a further store call, nothing more is
\* delivered, and the stream stores and enqueues no order.
C26_DisconnectStopsTheStream ==
    /\ [](Gone => ~ws.redisOpen)
    /\ [][Gone =>
            /\ ws'.state = ws.state
            /\ ws'.orderId = ws.orderId
            /\ sent' = sent
            /\ \A i \in DOMAIN ticks : ticks'[i] = ticks[i] \/ ticks'[i] = IdleTick
            /\ ticks' # ticks => UNCHANGED <<snapshot, history, jobs, nextId>>]_vars

\* C27: a stored order stays stored, and a step that changes its snapshot or
\* its history is a store call of that order's worker invocation and no step
\* of a fetch, a poll or a stream; a stream step that changes a snapshot
\* stores a new pending order under an id that had no snapshot.
C27_OnlyTheWorkerWrites ==
    [][/\ \A o \in DOMAIN snapshot :
            /\ o \in DOMAIN snapshot'
            /\ (snapshot'[o] # snapshot[o] \/ history'[o] # history[o]) =>
                    /\ o \in DOMAIN worker
                    /\ worker[o].pc \in {"set", "push"}
                    /\ UNCHANGED <<ws, ticks, sent, req>>
       /\ (snapshot' # snapshot /\ <<ws, ticks, sent, req>>' # <<ws, ticks, sent, req>>) =>
            \E id \in DOMAIN history \ DOMAIN snapshot :
                /\ DOMAIN snapshot' = DOMAIN snapshot \cup {id}
                /\ snapshot'[id].status = "pending"
                /\ history[id] = <<>>]_vars

\* Loop mode has stored its new order and not yet enqueued it; the order it
\* left has the snapshot and the history its worker wrote.
C27_Witness ==
    /\ ws.loopMode /\ ws.left = {1} /\ ws.orderId = 2
    /\ Stored(2) /\ 2 \notin DOMAIN jobs
    /\ snapshot[1].status = "failed"
    /\ Statuses(1) = <<"pending", "routing", "failed">>

\* C28: no two executeSwap calls have returned the same txHash.
C28_SettlementReferencesDiffer ==
    \A o, p \in DOMAIN calls :
        (o # p /\ calls[o].swap = "ok" /\ calls[p].swap = "ok")
            => calls[o].result.txHash # calls[p].result.txHash

\* C29: in a routing decision each venue's effectivePrice is its quoted
\* price x (1 - fee) and its output is amount x effectivePrice (units of 1e-6);
\* priceDifference is 100 x |raydium output - meteora output| over the greater
\* of the two outputs, is not negative, and is 0 exactly when the outputs are
\* equal.
C29_DecisionArithmetic ==
    probe.state = "answered" =>
        LET decision == probe.result.decision
            r == decision.raydium
            m == decision.meteora
            gap == IF r.output >= m.output THEN r.output - m.output
                   ELSE m.output - r.output
        IN  /\ r.effectivePrice = probe.raydium.price * (1000 - probe.raydium.fee)
            /\ m.effectivePrice = probe.meteora.price * (1000 - probe.meteora.fee)
            /\ r.output = probe.amount * r.effectivePrice
            /\ m.output = probe.amount * m.effectivePrice
            /\ decision.priceDifference.num = 100 * gap
            /\ decision.priceDifference.den =
                    (IF r.output >= m.output THEN r.output ELSE m.output)
            /\ decision.priceDifference.den > 0
            /\ decision.priceDifference.num >= 0
            /\ decision.priceDifference.num = 0 <=> r.output = m.output

\* Meteora's output is the greater one, and the difference is positive.
C29_Witness ==
    /\ probe.state = "answered"
    /\ probe.amount = 10
    /\ probe.result.decision.raydium.output < probe.result.decision.meteora.output
    /\ probe.result.decision.priceDifference.num > 0
    /\ probe.result.decision.priceDifference.den = probe.result.decision.meteora.output

\* The snapshot of a { order, history } body is not behind the history's end.
SnapshotKeepsUp(body) ==
    "history" \in DOMAIN body =>
        \/ body.history = <<>>
        \/ Rank(body.order.status) >= Rank(body.history[Len(body.history)].status)

\* C30: in every response with history, of the single fetch and of each poll
\* event, the status of the snapshot is at least as advanced as the status of
\* the last history entry.
C30_ResponseSnapshotNotBehindHistory ==
    /\ req.reply.status = 200 => SnapshotKeepsUp(req.reply.body)
    /\ \A n \in 1..Len(req.written) : SnapshotKeepsUp(req.written[n])

\* The quote the router was given for a venue.
QuoteOf(venue) == IF venue = "raydium" THEN probe.raydium ELSE probe.meteora

\* C31: in every result of selectBestDex the returned dex is the decision's
\* selected venue, the returned quote is the quote of that venue, and the
\* decision's reason names that venue.
C31_ResultNamesOneVenue ==
    probe.state = "answered" =>
        /\ probe.result.dex \in {"raydium", "meteora"}
        /\ probe.result.dex = probe.result.decision.selected
        /\ probe.result.quote = QuoteOf(probe.result.dex)
        /\ probe.result.decision.reason.venue = probe.result.dex

\* Meteora was selected with a quote that differs from raydium's.
C31_Witness ==
    /\ probe.state = "answered"
    /\ probe.result.dex = "meteora"
    /\ probe.result.decision.selected = "meteora"
    /\ probe.result.quote = probe.meteora
    /\ probe.result.quote # probe.raydium

\* The statuses an order has after its routing.
AfterRouting == {"building", "submitted", "confirmed"}

\* C32: for every order that passes routing, executeSwap is invoked exactly
\* once (never twice, and once by the time its invocation has finished) and on
\* the venue selectBestDex selected for it; every history entry and snapshot of
\* the order with status building, submitted or confirmed carries that venue as
\* selectedDex, and the snapshot's routingDecision.selected is that venue too.
C32_ExecutedOnceOnSelectedVenue ==
    \A o \in DOMAIN calls :
        /\ calls[o].execs <= 1
        /\ calls[o].execs = 1 =>
                /\ calls[o].quote = "ok"
                /\ calls[o].dex = calls[o].selected
        /\ (calls[o].quote = "ok" /\ Finished(o)) => calls[o].execs = 1
        /\ (Stored(o) /\ snapshot[o].status \in AfterRouting) =>
                /\ calls[o].quote = "ok"
                /\ "selectedDex" \in DOMAIN snapshot[o]
                /\ snapshot[o].selectedDex = calls[o].selected
                /\ "routingDecision" \in DOMAIN snapshot[o]
                /\ snapshot[o].routingDecision.selected = calls[o].selected
        /\ \A n \in 1..Len(history[o]) :
                history[o][n].status \in AfterRouting =>
                    /\ calls[o].quote = "ok"
                    /\ "selectedDex" \in DOMAIN history[o][n]
                    /\ history[o][n].selectedDex = calls[o].selected

\* An order was routed to raydium, executed there once and confirmed, and its
\* history holds the entries of all three statuses after routing.
C32_Witness ==
    \E o \in DOMAIN calls :
        /\ Finished(o)
        /\ calls[o].selected = "raydium"
        /\ calls[o].execs = 1
        /\ calls[o].dex = "raydium"
        /\ Stored(o)
        /\ snapshot[o].status = "confirmed"
        /\ snapshot[o].selectedDex = "raydium"
        /\ {history[o][n].status : n \in 1..Len(history[o])} =
                {"pending", "routing", "building", "submitted", "confirmed"}

\* C33: in every stored snapshot txHash and executedPrice are present only if
\* the status is confirmed, and error is present only if the status is failed;
\* so a confirmed snapshot carries no error and a failed one no txHash.
C33_OutcomeFieldsMatchStatus ==
    \A o \in DOMAIN snapshot :
        /\ "txHash" \in DOMAIN snapshot[o] => snapshot[o].status = "confirmed"
        /\ "executedPrice" \in DOMAIN snapshot[o] => snapshot[o].status = "confirmed"
        /\ "error" \in DOMAIN snapshot[o] => snapshot[o].status = "failed"
        /\ snapshot[o].status = "confirmed" => "error" \notin DOMAIN snapshot[o]
        /\ snapshot[o].status = "failed" => "txHash" \notin DOMAIN snapshot[o]

\* One order is stored confirmed with its settlement and no error, another is
\* stored failed, after its swap was rejected, with its error and no txHash.
C33_Witness ==
    \E o, q \in DOMAIN snapshot :
        /\ snapshot[o].status = "confirmed"
        /\ {"txHash", "executedPrice"} \subseteq DOMAIN snapshot[o]
        /\ "error" \notin DOMAIN snapshot[o]
        /\ snapshot[q].status = "failed"
        /\ calls[q].swap = "failed"
        /\ snapshot[q].error = "Execution failed"
        /\ "txHash" \notin DOMAIN snapshot[q]

\* The orders the stream has enqueued: the jobs no submission was answered for.
Generated == {o \in DOMAIN jobs : [status |-> 200, orderId |-> o] \notin replies}

\* C34: in loop mode the stream enqueues at most one new order for each order
\* that has reached a terminal status, overlapping ticks included, and once no
\* tick is between generating an order and announcing it, every order the
\* stream has enqueued is the order it tracks or one it tracked to its end.
C34_OneTrackedOrderPerCycle ==
    /\ Cardinality(Generated) <=
            Cardinality({o \in DOMAIN snapshot : snapshot[o].status \in Terminal})
    /\ ~Handover =>
            \A o \in Generated :
                \/ o = ws.orderId
                \/ (Stored(o) /\ snapshot[o].status \in Terminal)

\* C35: every stored snapshot belongs to an order whose job is in the queue;
\* so after a submission that was answered with the 500 error no pending
\* snapshot of its order is left in the store without a job.
C35_EverySnapshotHasItsJob ==
    \A o \in DOMAIN snapshot : o \in DOMAIN jobs /\ jobs[o].data.orderId = o

\* C36: once the worker's invocation for an order has finished, the stored
\* snapshot has a terminal status and the last history entry has that status;
\* while the invocation runs, the snapshot's status is that of the last history
\* entry or one legal transition ahead of it (pending before the first entry).
C36_SnapshotAtMostOneStepAhead ==
    \A o \in DOMAIN jobs :
        LET last == history[o][Len(history[o])].status
        IN  /\ Finished(o) =>
                    /\ Stored(o)
                    /\ snapshot[o].status \in Terminal
                    /\ history[o] # <<>>
                    /\ last = snapshot[o].status
            /\ o \in DOMAIN worker =>
                    /\ Stored(o)
                    /\ history[o] = <<>> => snapshot[o].status = "pending"
                    /\ history[o] # <<>> =>
                            \/ snapshot[o].status = last
                            \/ Legal(last, snapshot[o].status)

\* C37: on a push stream every snapshot message has a status at least as
\* advanced as every history message sent before it for the same order id
\* (while a snapshot message is the last one sent, every history message sent
\* so far precedes it).
C37_SnapshotMessageNotBehindHistorySent ==
    sent.last.kind = "snapshot" =>
        \A n \in 1..Len(sent.history) :
            sent.history[n].entry.orderId = sent.last.order.orderId =>
                Rank(sent.last.order.status) >= Rank(sent.history[n].entry.status)

\* A tick has sent the routing entry and then a snapshot that is already one
\* step further.
C37_Witness ==
    /\ sent.last.kind = "snapshot"
    /\ sent.last.order.status = "building"
    /\ Len(sent.history) >= 2
    /\ sent.history[Len(sent.history)].entry.orderId = sent.last.order.orderId
    /\ sent.history[Len(sent.history)].entry.status = "routing"

====
